---- MODULE Spec2Model ----
(***************************************************************************)
(* State-machine model of server/controllers/userController.ts (SiteSwift). *)
(* Every await of a handler is a point where other requests may run, so a   *)
(* handler is a chain of steps, one per awaited call, linked by a program   *)
(* counter.  A rejected promise of a persistence or service call is the     *)
(* input ok = FALSE of the step that awaits it.                             *)
(***************************************************************************)
EXTENDS Integers, Sequences, FiniteSets, TLC

\* ---------------------------------------------------------------- bounds
MaxRequests == 2
MaxProjects == 2
MaxToggles == 2
MaxPurchases == 2
\* createUserProject requests in a run that also serves purchaseCredits calls
MaxCallRequests == 1
\* characters in a raw code-generation output
MaxRawLen == 7

Requests == 1..MaxRequests
ToggleCalls == 1..MaxToggles
PurchaseCalls == 1..MaxPurchases

\* ------------------------------------------------------- program constants
CreditsRequired == 5
DebitAmount == 5
RefundAmount == 5

\* Rows of the User table, and the values req.userId can take: a user with a
\* row, an authenticated id without a row, or undefined.
Users == {"A", "B"}
NoRow == "Z"
NoUser == "undefined"
UserIds == Users \cup {NoRow}
CreditChoices == {4, 5, 10}

\* ------------------------------------------------------------------ text
\* A string is a sequence of characters; Null is an absent string.
Null == <<"null">>
\* Characters are named: Tick is the backquote, "h" a letter, "<" any other
\* visible character.
Tick == "tick"
Letters == {"h"}
Whitespace == {" ", "\n"}

RECURSIVE TrimStart(_)
TrimStart(s) ==
  IF s # <<>> /\ Head(s) \in Whitespace THEN TrimStart(Tail(s)) ELSE s

RECURSIVE TrimEnd(_)
TrimEnd(s) ==
  IF s # <<>> /\ s[Len(s)] \in Whitespace
    THEN TrimEnd(SubSeq(s, 1, Len(s) - 1))
    ELSE s

Trim(s) == TrimEnd(TrimStart(s))

RECURSIVE DropLetters(_)
DropLetters(s) ==
  IF s # <<>> /\ Head(s) \in Letters THEN DropLetters(Tail(s)) ELSE s

DropNewline(s) == IF s # <<>> /\ Head(s) = "\n" THEN Tail(s) ELSE s

FenceAt(s) == Len(s) >= 3 /\ s[1] = Tick /\ s[2] = Tick /\ s[3] = Tick

\* replace without the g flag: the first fence only
RECURSIVE StripOpeningFencesMutant(_)
StripOpeningFencesMutant(s) ==
  IF s = <<>> THEN <<>>
  ELSE IF FenceAt(s)
    THEN DropNewline(DropLetters(SubSeq(s, 4, Len(s))))
    ELSE <<Head(s)>> \o StripOpeningFencesMutant(Tail(s))

\* raw.replace(/TickTickTick[a-z]*\n?/gi, "")
RECURSIVE StripOpeningFences(_)
StripOpeningFences(s) ==
  IF s = <<>> THEN <<>>
  ELSE IF FenceAt(s)
    THEN StripOpeningFences(DropNewline(DropLetters(SubSeq(s, 4, Len(s)))))
    ELSE <<Head(s)>> \o StripOpeningFences(Tail(s))

\* .replace(/TickTickTick$/g, "")
StripClosingFence(s) ==
  IF Len(s) >= 3 /\ FenceAt(SubSeq(s, Len(s) - 2, Len(s)))
    THEN SubSeq(s, 1, Len(s) - 3)
    ELSE s

Sanitize(raw) == Trim(StripClosingFence(StripOpeningFences(raw)))

\* message.content || ""
ContentOrEmpty(content) == IF content = Null THEN <<>> ELSE content

\* message.content?.trim() || initial_prompt
EnhancedOrOriginal(content, initial_prompt) ==
  IF content = Null \/ Trim(content) = <<>> THEN initial_prompt ELSE Trim(content)

PromptMissingMutant(initial_prompt) == initial_prompt = Null \/ initial_prompt = <<>>

\* !initial_prompt?.trim()
PromptMissing(initial_prompt) ==
  initial_prompt = Null \/ Trim(initial_prompt) = <<>>

\* Request bodies and completion-service answers the model draws from.
Prompts == {Null, <<>>, <<" ">>, <<"p">>}
EnhanceContents == {Null, <<" ">>, <<"e", " ">>}
CodeContents ==
  { Null,
    <<Tick, Tick, Tick, "h", "\n", Tick, Tick, Tick>>,
    <<Tick, Tick, Tick, "h", "\n", "<", "\n", Tick, Tick, Tick>>,
    <<" ", "<">> }

\* ----------------------------------------------------------------- state
VARIABLES
  opening,        \* the balance of each user before any request
  credits,        \* User.credits
  totalCreation,  \* User.totalCreation
  projects,       \* WebsiteProject rows; the id of a row is its index
  conversation,   \* Conversation rows of each project, in timestamp order
  versions,       \* Version rows; the id of a row is its index
  transactions,   \* Transaction rows; the id of a row is its index
  sessions,       \* checkout sessions opened at the payment processor
  req,            \* createUserProject: locals, position and responses of each request
  applied,        \* createUserProject: balance writes each request has committed
  tog,            \* togglePublish: locals, position and responses of each call
  pur,            \* purchaseCredits: locals, position and responses of each call
  got,            \* getUserProject: the last call and its response
  text,           \* the sanitization of one raw code-generation output
  routed          \* the request the user router dispatched, and who sent it

vars == <<opening, credits, totalCreation, projects, conversation, versions,
          transactions, sessions, req, applied, tog, pur, got, text, routed>>

Response(status, message, projectId) ==
  [status |-> status, message |-> message, projectId |-> projectId]

IdleRequest ==
  [pc |-> "idle", userId |-> NoUser, initial_prompt |-> Null,
   projectId |-> 0, enhancedPrompt |-> Null, cleaned |-> Null, versionId |-> 0,
   task |-> "none", res |-> <<>>]

IdleToggle ==
  [pc |-> "idle", userId |-> NoUser, projectId |-> 0, isPublished |-> FALSE,
   res |-> <<>>]

IdlePurchase ==
  [pc |-> "idle", userId |-> NoUser, planId |-> "none", transactionId |-> 0,
   amount |-> 0, res |-> <<>>]

NoGet == [userId |-> NoUser, projectId |-> 0, ok |-> TRUE, res |-> <<>>]

\* no output is being sanitized outside the handlers
NoText == [raw |-> Null, cleaned |-> Null, again |-> Null]

\* no request has come through the router
NoRouted == [route |-> "none", session |-> "none", res |-> <<>>]

Init ==
  /\ \E c \in CreditChoices : credits = [u \in Users |-> c]
  /\ opening = credits
  /\ totalCreation = [u \in Users |-> 0]
  /\ projects = <<>>
  /\ conversation = <<>>
  /\ versions = <<>>
  /\ transactions = <<>>
  /\ sessions = <<>>
  /\ req = [r \in Requests |-> IdleRequest]
  /\ applied = [r \in Requests |-> [debits |-> 0, refunds |-> 0]]
  /\ tog = [t \in ToggleCalls |-> IdleToggle]
  /\ pur = [p \in PurchaseCalls |-> IdlePurchase]
  /\ got = NoGet
  /\ text = NoText
  /\ routed = NoRouted

\* ------------------------------------------------- createUserProject
Entry(role, content) == [role |-> role, content |-> content]

AppendEntryMutant(projectId, role, content) ==
  conversation' = [conversation EXCEPT ![projectId] = <<Entry(role, content)>> \o @]

AppendEntryOverwriteMutant(projectId, role, content) ==
  conversation' = [conversation EXCEPT ![projectId] =
                     IF @ = <<>> THEN <<Entry(role, content)>>
                     ELSE SubSeq(@, 1, Len(@) - 1) \o <<Entry(role, content)>>]

\* prisma.conversation.create for one project
AppendEntry(projectId, role, content) ==
  conversation' = [conversation EXCEPT ![projectId] = Append(@, Entry(role, content))]

EndedMutant(r, task, res) ==
  [IdleRequest EXCEPT !.pc = "done", !.userId = req[r].userId,
                      !.projectId = req[r].projectId, !.task = task,
                      !.res = IF task = "failed"
                                THEN Append(res, Response(500, "error", 0))
                                ELSE res]

\* The request after its handler and its background function have ended: the
\* locals are gone, the request keeps who sent it, the project it created and
\* what it was answered.
Ended(r, task, res) ==
  [IdleRequest EXCEPT !.pc = "done", !.userId = req[r].userId,
                      !.projectId = req[r].projectId, !.task = task, !.res = res]

\* res.status(s).json({ message }) and return
Reply(r, status, message) ==
  req' = [req EXCEPT ![r] =
            Ended(r, "none", Append(req[r].res, Response(status, message, 0)))]

\* the outer catch: res.status(500).json({ message: error.message })
ReplyError(r) == Reply(r, 500, "error")

Store == <<credits, totalCreation, projects, conversation, versions>>
Others == <<opening, transactions, sessions, tog, pur, got, text, routed>>

UnidentifiedMutant(userId) == userId \notin Users

\* !userId (lines 10, 33, 165, 190, 210, 249)
Unidentified(userId) == userId = NoUser

\* lines 28-34 for the identity and the body of one request
ValidateAs(r, userId, initial_prompt) ==
  /\ req[r].pc = "idle"
  /\ IF Unidentified(userId)
       THEN Reply(r, 401, "Unauthorized user")
     ELSE IF PromptMissing(initial_prompt)
       THEN Reply(r, 400, "initial_prompt is required")
     ELSE req' = [req EXCEPT ![r].pc = "findUser", ![r].userId = userId,
              ![r].initial_prompt = initial_prompt]
  /\ UNCHANGED <<Store, applied, opening, transactions, sessions, tog, pur, got, text>>

\* lines 28-34: read the request, reject a missing identity or prompt
Validate(r) ==
  /\ \E userId \in UserIds \cup {NoUser}, initial_prompt \in Prompts :
       ValidateAs(r, userId, initial_prompt)
  /\ UNCHANGED routed

\* line 42, negated: user.credits < 5 rejects the request
SufficientMutant(balance) == balance >= 0
Sufficient(balance) == balance >= CreditsRequired

\* lines 36-42: load the user, require a row and 5 credits
FindUser(r) ==
  /\ req[r].pc = "findUser"
  /\ \E ok \in BOOLEAN :
       IF ~ok THEN ReplyError(r)
       ELSE IF req[r].userId \notin Users THEN Reply(r, 401, "User not found")
       ELSE IF ~Sufficient(credits[req[r].userId])
         THEN Reply(r, 403, "Add credits to create more projects")
       ELSE req' = [req EXCEPT ![r].pc = "createProject"]
  /\ UNCHANGED <<Store, applied, Others>>

NewProject(userId, initial_prompt) ==
  [userId |-> userId, initial_prompt |-> initial_prompt, isPublished |-> FALSE,
   current_code |-> Null, current_version_index |-> 0]

\* lines 44-51: prisma.websiteProject.create
CreateProject(r) ==
  /\ req[r].pc = "createProject"
  /\ \E ok \in BOOLEAN :
       IF ok
         THEN /\ projects' = Append(projects, NewProject(req[r].userId, req[r].initial_prompt))
              /\ conversation' = Append(conversation, <<>>)
              /\ req' = [req EXCEPT ![r].pc = "countCreation",
                                    ![r].projectId = Len(projects) + 1]
         ELSE /\ ReplyError(r)
              /\ UNCHANGED <<projects, conversation>>
  /\ UNCHANGED <<credits, totalCreation, versions, applied, Others>>

\* lines 53-56: totalCreation increment
CountCreation(r) ==
  /\ req[r].pc = "countCreation"
  /\ \E ok \in BOOLEAN :
       IF ok
         THEN /\ totalCreation' = [totalCreation EXCEPT ![req[r].userId] = @ + 1]
              /\ req' = [req EXCEPT ![r].pc = "logPrompt"]
         ELSE /\ ReplyError(r)
              /\ UNCHANGED totalCreation
  /\ UNCHANGED <<credits, projects, conversation, versions, applied, Others>>

\* lines 58-60: the initial user entry
LogPrompt(r) ==
  /\ req[r].pc = "logPrompt"
  /\ \E ok \in BOOLEAN :
       IF ok
         THEN /\ AppendEntry(req[r].projectId, "user", req[r].initial_prompt)
              /\ req' = [req EXCEPT ![r].pc = "debit"]
         ELSE /\ ReplyError(r)
              /\ UNCHANGED conversation
  /\ UNCHANGED <<credits, totalCreation, projects, versions, applied, Others>>

DebitedMutant(balance) == balance - 1

\* credits: { decrement: 5 }
Debited(balance) == balance - DebitAmount

\* lines 63-72: decrement credits by 5, respond with the project id, start the
\* background function, which runs up to its first await
Debit(r) ==
  /\ req[r].pc = "debit"
  /\ \E ok \in BOOLEAN :
       IF ok
         THEN /\ credits' = [credits EXCEPT ![req[r].userId] = Debited(@)]
              /\ applied' = [applied EXCEPT ![r].debits = @ + 1]
              /\ req' = [req EXCEPT ![r].pc = "enhance", ![r].task = "running",
                   ![r].res = Append(@, Response(200, "projectId", req[r].projectId))]
         ELSE /\ ReplyError(r)
              /\ UNCHANGED <<credits, applied>>
  /\ UNCHANGED <<totalCreation, projects, conversation, versions, Others>>

\* ---------------------------------- createUserProject, background function
EnhancedNotice(enhancedPrompt) == <<"I have enhanced your prompt to: ">> \o enhancedPrompt
StartNotice == <<"now generating your website...">>
FailureNotice == <<"Unable to create the code. Please try again.">>
SuccessNotice == <<"I have created your website! You can now preview it and request changes.">>

\* a rejection inside the try block: control moves to the catch at line 142,
\* where the constants declared in the try block are out of scope
Caught(r) ==
  req' = [req EXCEPT ![r].pc = "refundOnError", ![r].enhancedPrompt = Null,
                     ![r].cleaned = Null, ![r].versionId = 0]

\* lines 75-87: the enhancement call and its fallback
Enhance(r) ==
  /\ req[r].pc = "enhance"
  /\ \/ Caught(r)
     \/ \E content \in EnhanceContents :
          req' = [req EXCEPT ![r].pc = "logEnhanced",
            ![r].enhancedPrompt = EnhancedOrOriginal(content, req[r].initial_prompt)]
  /\ UNCHANGED <<Store, applied, Others>>

\* lines 89-91: the enhanced-prompt notice
LogEnhanced(r) ==
  /\ req[r].pc = "logEnhanced"
  /\ \E ok \in BOOLEAN :
       IF ok
         THEN /\ AppendEntry(req[r].projectId, "assistant", EnhancedNotice(req[r].enhancedPrompt))
              /\ req' = [req EXCEPT ![r].pc = "logStart"]
         ELSE /\ Caught(r)
              /\ UNCHANGED conversation
  /\ UNCHANGED <<credits, totalCreation, projects, versions, applied, Others>>

\* lines 93-95: the start notice
LogStart(r) ==
  /\ req[r].pc = "logStart"
  /\ \E ok \in BOOLEAN :
       IF ok
         THEN /\ AppendEntry(req[r].projectId, "assistant", StartNotice)
              /\ req' = [req EXCEPT ![r].pc = "generate"]
         ELSE /\ Caught(r)
              /\ UNCHANGED conversation
  /\ UNCHANGED <<credits, totalCreation, projects, versions, applied, Others>>

\* lines 98-115: the code-generation call, sanitization, the branch on empty output
Generate(r) ==
  /\ req[r].pc = "generate"
  /\ \/ Caught(r)
     \/ \E content \in CodeContents :
          LET cleaned == Sanitize(ContentOrEmpty(content)) IN
            req' = [req EXCEPT ![r].cleaned = cleaned,
              ![r].pc = IF cleaned = <<>> THEN "logFailure" ELSE "createVersion"]
  /\ UNCHANGED <<Store, applied, Others>>

\* lines 116-118: the failure notice
LogFailure(r) ==
  /\ req[r].pc = "logFailure"
  /\ \E ok \in BOOLEAN :
       IF ok
         THEN /\ AppendEntry(req[r].projectId, "assistant", FailureNotice)
              /\ req' = [req EXCEPT ![r].pc = "refund"]
         ELSE /\ Caught(r)
              /\ UNCHANGED conversation
  /\ UNCHANGED <<credits, totalCreation, projects, versions, applied, Others>>

RefundedMutant(balance) == balance + 1

\* credits: { increment: 5 }
Refunded(balance) == balance + RefundAmount

\* a refund that writes back the balance read before the debit
RefundAppliedMutant(r) ==
  /\ credits' = [credits EXCEPT ![req[r].userId] = opening[req[r].userId]]
  /\ applied' = [applied EXCEPT ![r].refunds = @ + 1]

\* the refund committed by request r
RefundApplied(r) ==
  /\ credits' = [credits EXCEPT ![req[r].userId] = Refunded(@)]
  /\ applied' = [applied EXCEPT ![r].refunds = @ + 1]

\* the empty-output branch leaving through a throw in place of the return
RefundMutant(r) ==
  /\ req[r].pc = "refund"
  /\ \E ok \in BOOLEAN :
       IF ok THEN RefundApplied(r) ELSE UNCHANGED <<credits, applied>>
  /\ Caught(r)
  /\ UNCHANGED <<totalCreation, projects, conversation, versions, Others>>

\* lines 121-125: the refund of the empty-output branch, then return
Refund(r) ==
  /\ req[r].pc = "refund"
  /\ \E ok \in BOOLEAN :
       IF ok
         THEN /\ RefundApplied(r)
              /\ req' = [req EXCEPT ![r] = Ended(r, "emptyOutput", req[r].res)]
         ELSE /\ Caught(r)
              /\ UNCHANGED <<credits, applied>>
  /\ UNCHANGED <<totalCreation, projects, conversation, versions, Others>>

\* lines 129-132: prisma.version.create
CreateVersion(r) ==
  /\ req[r].pc = "createVersion"
  /\ \E ok \in BOOLEAN :
       IF ok
         THEN /\ versions' = Append(versions,
                   [projectId |-> req[r].projectId, code |-> req[r].cleaned,
                    description |-> "Initial Version"])
              /\ req' = [req EXCEPT ![r].pc = "updateProject",
                                    ![r].versionId = Len(versions) + 1]
         ELSE /\ Caught(r)
              /\ UNCHANGED versions
  /\ UNCHANGED <<credits, totalCreation, projects, conversation, applied, Others>>

\* lines 134-137: point the project at the new version
UpdateProject(r) ==
  /\ req[r].pc = "updateProject"
  /\ \E ok \in BOOLEAN :
       IF ok
         THEN /\ projects' = [projects EXCEPT
                   ![req[r].projectId].current_code = req[r].cleaned,
                   ![req[r].projectId].current_version_index = req[r].versionId]
              /\ req' = [req EXCEPT ![r].pc = "logSuccess"]
         ELSE /\ Caught(r)
              /\ UNCHANGED projects
  /\ UNCHANGED <<credits, totalCreation, conversation, versions, applied, Others>>

\* lines 139-141: the success notice, end of the try block
LogSuccess(r) ==
  /\ req[r].pc = "logSuccess"
  /\ \E ok \in BOOLEAN :
       IF ok
         THEN /\ AppendEntry(req[r].projectId, "assistant", SuccessNotice)
              /\ req' = [req EXCEPT ![r] = Ended(r, "succeeded", req[r].res)]
         ELSE /\ Caught(r)
              /\ UNCHANGED conversation
  /\ UNCHANGED <<credits, totalCreation, projects, versions, applied, Others>>

\* lines 142-150: the catch block: refund, a rejected refund is swallowed
RefundOnError(r) ==
  /\ req[r].pc = "refundOnError"
  /\ \E ok \in BOOLEAN :
       IF ok THEN RefundApplied(r) ELSE UNCHANGED <<credits, applied>>
  /\ req' = [req EXCEPT ![r] = Ended(r, "failed", req[r].res)]
  /\ UNCHANGED <<totalCreation, projects, conversation, versions, Others>>

CreateUserProject(r) ==
  \/ Validate(r)
  \/ FindUser(r)
  \/ CreateProject(r)
  \/ CountCreation(r)
  \/ LogPrompt(r)
  \/ Debit(r)
  \/ Enhance(r)
  \/ LogEnhanced(r)
  \/ LogStart(r)
  \/ Generate(r)
  \/ LogFailure(r)
  \/ Refund(r)
  \/ CreateVersion(r)
  \/ UpdateProject(r)
  \/ LogSuccess(r)
  \/ RefundOnError(r)

Next == \E r \in Requests : CreateUserProject(r)

Spec == Init /\ [][Next]_vars

\* no other createUserProject request is between its first and its last step
Sequential(r) == \A o \in Requests \ {r} : req[o].pc \in {"idle", "done"}

NextSeq == \E r \in Requests : Sequential(r) /\ CreateUserProject(r)
SpecSeq == Init /\ [][NextSeq]_vars

\* --------------------------------------------------- getUserProject
\* Project ids a request can name: the rows of the table and an id of no row.
ProjectIds == 1..(MaxProjects + 1)
Callers == UserIds \cup {NoUser}

OwnedBy(projectId, userId) ==
  /\ projectId \in 1..Len(projects)
  /\ projects[projectId].userId = userId

FindWithHistoryMutant(projectId, userId) ==
  IF projectId \in 1..Len(projects)
    THEN <<[id |-> projectId, row |-> projects[projectId],
            conversation |-> conversation[projectId],
            versions |-> SelectSeq(versions, LAMBDA v : v.projectId = projectId)]>>
    ELSE <<>>

\* lines 171-177: findUnique where { id, userId }, with the entries and the
\* versions of the project in timestamp order; <<>> is null
FindWithHistory(projectId, userId) ==
  IF OwnedBy(projectId, userId)
    THEN <<[id |-> projectId, row |-> projects[projectId],
            conversation |-> conversation[projectId],
            versions |-> SelectSeq(versions, LAMBDA v : v.projectId = projectId)]>>
    ELSE <<>>

ReadResponse(status, message, project) ==
  [status |-> status, message |-> message, project |-> project]

\* lines 162-184: what getUserProject answers
GetUserProjectResponse(userId, projectId, ok) ==
  IF Unidentified(userId) THEN ReadResponse(401, "Unauthorized user", <<>>)
  ELSE IF ~ok THEN ReadResponse(500, "error", <<>>)
  ELSE ReadResponse(200, "project", FindWithHistory(projectId, userId))

GetUserProjectAs(userId, projectId, ok) ==
  /\ got' = [userId |-> userId, projectId |-> projectId, ok |-> ok,
             res |-> <<GetUserProjectResponse(userId, projectId, ok)>>]
  /\ UNCHANGED <<Store, opening, transactions, sessions, req, applied, tog, pur, text>>

GetUserProject ==
  /\ \E userId \in Callers, projectId \in ProjectIds, ok \in BOOLEAN :
       GetUserProjectAs(userId, projectId, ok)
  /\ UNCHANGED routed

\* ---------------------------------------------------- togglePublish
MessageResponse(status, message) == [status |-> status, message |-> message]

ToggleReply(t, userId, projectId, status, message) ==
  tog' = [tog EXCEPT ![t].pc = "done", ![t].userId = userId,
                     ![t].projectId = projectId,
                     ![t].res = Append(@, MessageResponse(status, message))]

FindForToggleMutant(projectId, userId) == projectId \in 1..Len(projects)

\* lines 216-221: findUnique where { id, userId } finds a row
FindForToggle(projectId, userId) == OwnedBy(projectId, userId)

\* lines 209-223: identity, the ownership-scoped lookup, not found; a call
\* that ends before its lookup returned a row or null is kept without the id
ToggleFindAs(t, userId, projectId, ok) ==
  /\ tog[t].pc = "idle"
  /\ IF Unidentified(userId) THEN ToggleReply(t, userId, 0, 401, "Unauthorized user")
     ELSE IF ~ok THEN ToggleReply(t, userId, 0, 500, "error")
     ELSE IF ~FindForToggle(projectId, userId)
       THEN ToggleReply(t, userId, projectId, 404, "Project not found")
     ELSE tog' = [tog EXCEPT ![t].pc = "update", ![t].userId = userId,
                    ![t].projectId = projectId,
                    ![t].isPublished = projects[projectId].isPublished]
  /\ UNCHANGED <<Store, opening, transactions, sessions, req, applied, pur, got, text>>

ToggleFind(t) ==
  /\ \E userId \in Callers, projectId \in ProjectIds, ok \in BOOLEAN :
       ToggleFindAs(t, userId, projectId, ok)
  /\ UNCHANGED routed

\* lines 225-232: write the negation of the flag that was read, answer
ToggleUpdate(t) ==
  /\ tog[t].pc = "update"
  /\ \E ok \in BOOLEAN :
       IF ok
         THEN /\ projects' = [projects EXCEPT
                   ![tog[t].projectId].isPublished = ~tog[t].isPublished]
              /\ ToggleReply(t, tog[t].userId, tog[t].projectId, 200,
                   IF tog[t].isPublished THEN "Project Unpublished"
                                         ELSE "Project Published Successfully")
         ELSE /\ ToggleReply(t, tog[t].userId, tog[t].projectId, 500, "error")
              /\ UNCHANGED projects
  /\ UNCHANGED <<credits, totalCreation, conversation, versions, opening,
                 transactions, sessions, req, applied, pur, got, text, routed>>

\* ---------------------------------------------------- purchaseCredits
\* lines 242-246
Plans ==
  [basic |-> [credits |-> 100, amount |-> 5],
   pro |-> [credits |-> 400, amount |-> 19],
   enterprise |-> [credits |-> 1000, amount |-> 49]]

PlanIds == {"basic", "pro", "enterprise", "gold"}

PurchaseReply(p, userId, planId, status, message) ==
  pur' = [pur EXCEPT ![p].pc = "done", ![p].userId = userId, ![p].planId = planId,
                     ![p].res = Append(@, MessageResponse(status, message))]

UnitAmountMutant(amount) == amount

\* line 280: Math.floor(transaction.amount) * 100; the amounts are whole numbers
UnitAmount(amount) == amount * 100

\* lines 248-268: identity, the plan, the Transaction row; creating the row
\* rejects when the user it connects to has no row
PurchaseCreateAs(p, userId, planId, ok) ==
  /\ pur[p].pc = "idle"
  /\ IF Unidentified(userId)
       THEN /\ PurchaseReply(p, userId, "none", 401, "Unauthorized user")
            /\ UNCHANGED transactions
     ELSE IF planId \notin DOMAIN Plans
       THEN /\ PurchaseReply(p, userId, planId, 404, "Plan not found")
            /\ UNCHANGED transactions
     ELSE IF ~ok \/ userId \notin Users
       THEN /\ PurchaseReply(p, userId, planId, 500, "error")
            /\ UNCHANGED transactions
     ELSE /\ transactions' = Append(transactions,
               [planId |-> planId, amount |-> Plans[planId].amount,
                credits |-> Plans[planId].credits, userId |-> userId])
          /\ pur' = [pur EXCEPT ![p].pc = "checkout", ![p].userId = userId,
               ![p].planId = planId, ![p].transactionId = Len(transactions) + 1,
               ![p].amount = Plans[planId].amount]
  /\ UNCHANGED <<Store, opening, sessions, req, applied, tog, got, text>>

PurchaseCreate(p) ==
  /\ \E userId \in Callers, planId \in PlanIds, ok \in BOOLEAN :
       PurchaseCreateAs(p, userId, planId, ok)
  /\ UNCHANGED routed

\* lines 270-293: open the checkout session, answer with its link
PurchaseCheckout(p) ==
  /\ pur[p].pc = "checkout"
  /\ \E ok \in BOOLEAN :
       IF ok
         THEN /\ sessions' = Append(sessions,
                   [unit_amount |-> UnitAmount(pur[p].amount), quantity |-> 1,
                    name |-> Plans[pur[p].planId].credits,
                    transactionId |-> pur[p].transactionId])
              /\ PurchaseReply(p, pur[p].userId, pur[p].planId, 200, "payment_link")
         ELSE /\ PurchaseReply(p, pur[p].userId, pur[p].planId, 500, "error")
              /\ UNCHANGED sessions
  /\ UNCHANGED <<Store, opening, transactions, req, applied, tog, got, text, routed>>

\* ------------------------------------------- the store, handler by handler
\* What a terminated generation leaves of its project: the row, its entries and
\* its version, if it made one.
Outcomes == {"succeeded", "emptyOutput"}
LeftCode == <<"<">>

LeftRow(owner, outcome, versionId) ==
  IF outcome = "succeeded"
    THEN [NewProject(owner, <<"p">>) EXCEPT !.current_code = LeftCode,
                                           !.current_version_index = versionId]
    ELSE NewProject(owner, <<"p">>)

LeftLog(outcome) ==
  <<Entry("user", <<"p">>), Entry("assistant", EnhancedNotice(<<"e">>)),
    Entry("assistant", StartNotice),
    Entry("assistant", IF outcome = "succeeded" THEN SuccessNotice ELSE FailureNotice)>>

\* the number of versions made by the first n generations
RECURSIVE VersionCount(_, _)
VersionCount(outcome, n) ==
  IF n = 0 THEN 0
  ELSE VersionCount(outcome, n - 1) + (IF outcome[n] = "succeeded" THEN 1 ELSE 0)

RECURSIVE LeftVersions(_, _)
LeftVersions(outcome, n) ==
  IF n = 0 THEN <<>>
  ELSE LeftVersions(outcome, n - 1) \o
       (IF outcome[n] = "succeeded"
          THEN <<[projectId |-> n, code |-> LeftCode, description |-> "Initial Version"]>>
          ELSE <<>>)

\* The tables after n generations, run one after the other, have terminated.
InitStore ==
  /\ \E n \in 0..MaxProjects :
       \E owner \in [1..n -> Users], outcome \in [1..n -> Outcomes] :
         /\ projects = [i \in 1..n |-> LeftRow(owner[i], outcome[i], VersionCount(outcome, i))]
         /\ conversation = [i \in 1..n |-> LeftLog(outcome[i])]
         /\ versions = LeftVersions(outcome, n)
         /\ totalCreation = [u \in Users |-> Cardinality({i \in 1..n : owner[i] = u})]
  /\ credits = [u \in Users |-> CreditsRequired]
  /\ opening = credits
  /\ transactions = <<>>
  /\ sessions = <<>>
  /\ req = [r \in Requests |-> IdleRequest]
  /\ applied = [r \in Requests |-> [debits |-> 0, refunds |-> 0]]
  /\ tog = [t \in ToggleCalls |-> IdleToggle]
  /\ pur = [p \in PurchaseCalls |-> IdlePurchase]
  /\ got = NoGet
  /\ text = NoText
  /\ routed = NoRouted

NextRead == GetUserProject
SpecRead == InitStore /\ [][NextRead]_vars

NextToggle == \E t \in ToggleCalls : ToggleFind(t) \/ ToggleUpdate(t)
SpecToggle == InitStore /\ [][NextToggle]_vars

NextPurchase == \E p \in PurchaseCalls : PurchaseCreate(p) \/ PurchaseCheckout(p)
SpecPurchase == Init /\ [][NextPurchase]_vars

\* The two handlers that reject a request before their first awaited call,
\* their calls served one after the other, in any order.
NoCallRunning ==
  /\ \A r \in Requests : req[r].pc \in {"idle", "done"}
  /\ \A p \in PurchaseCalls : pur[p].pc \in {"idle", "done"}

CallRunning(pc) == pc \notin {"idle", "done"}

NextCalls ==
  \/ \E r \in 1..MaxCallRequests :
       /\ NoCallRunning \/ CallRunning(req[r].pc)
       /\ CreateUserProject(r)
  \/ \E p \in PurchaseCalls :
       /\ NoCallRunning \/ CallRunning(pur[p].pc)
       /\ PurchaseCreate(p) \/ PurchaseCheckout(p)
SpecCalls == Init /\ [][NextCalls]_vars

\* ------------------------------------------ sanitization, on its own
\* The raw outputs: every string of at most MaxRawLen characters.
Chars == {Tick, " ", "\n"} \cup Letters \cup {"<"}
RawOutputs == UNION {[1..n -> Chars] : n \in 0..MaxRawLen}

InitText ==
  /\ \E raw \in RawOutputs : text = [NoText EXCEPT !.raw = raw]
  /\ credits = [u \in Users |-> CreditsRequired]
  /\ opening = credits
  /\ totalCreation = [u \in Users |-> 0]
  /\ projects = <<>>
  /\ conversation = <<>>
  /\ versions = <<>>
  /\ transactions = <<>>
  /\ sessions = <<>>
  /\ req = [r \in Requests |-> IdleRequest]
  /\ applied = [r \in Requests |-> [debits |-> 0, refunds |-> 0]]
  /\ tog = [t \in ToggleCalls |-> IdleToggle]
  /\ pur = [p \in PurchaseCalls |-> IdlePurchase]
  /\ got = NoGet
  /\ routed = NoRouted

Untouched ==
  <<Store, opening, transactions, sessions, req, applied, tog, pur, got, routed>>

\* lines 110-113 applied to the raw output
SanitizeRaw ==
  /\ text.raw # Null
  /\ text.cleaned = Null
  /\ text' = [text EXCEPT !.cleaned = Sanitize(text.raw)]
  /\ UNCHANGED Untouched

\* lines 110-113 applied to their own result
SanitizeAgain ==
  /\ text.cleaned # Null
  /\ text.again = Null
  /\ text' = [text EXCEPT !.again = Sanitize(text.cleaned)]
  /\ UNCHANGED Untouched

NextText == SanitizeRaw \/ SanitizeAgain
SpecText == InitText /\ [][NextText]_vars

\* ------------------------------------ getUserCredits, getUserProjects
\* lines 7-24: what getUserCredits answers; user?.credits ?? 0
GetUserCreditsResponse(userId, ok) ==
  IF Unidentified(userId) THEN MessageResponse(401, "Unauthorized user")
  ELSE IF ~ok THEN MessageResponse(500, "error")
  ELSE [status |-> 200, message |-> "credits",
        credits |-> IF userId \in Users THEN credits[userId] ELSE 0]

\* lines 187-204: what getUserProjects answers: the rows of the user, here by
\* their ids
GetUserProjectsResponse(userId, ok) ==
  IF Unidentified(userId) THEN MessageResponse(401, "Unauthorized user")
  ELSE IF ~ok THEN MessageResponse(500, "error")
  ELSE [status |-> 200, message |-> "projects",
        projects |-> {p \in 1..Len(projects) : projects[p].userId = userId}]

\* the steps of createUserProject after lines 28-34
AfterValidate(r) ==
  \/ FindUser(r)
  \/ CreateProject(r)
  \/ CountCreation(r)
  \/ LogPrompt(r)
  \/ Debit(r)
  \/ Enhance(r)
  \/ LogEnhanced(r)
  \/ LogStart(r)
  \/ Generate(r)
  \/ LogFailure(r)
  \/ Refund(r)
  \/ CreateVersion(r)
  \/ UpdateProject(r)
  \/ LogSuccess(r)
  \/ RefundOnError(r)

\* ----------------------------------------------------- the user router
\* The router and the protect middleware, as the specification describes the
\* boundary: a request with a missing or invalid session is rejected before
\* any handler, and a handler receives the identifier of the authenticated
\* user in req.userId.
SessionTokens == {"sessionA", "sessionB", "sessionZ", "expired", "missing"}
ValidSessions == {"sessionA", "sessionB", "sessionZ"}

SessionUser(session) ==
  CASE session = "sessionA" -> "A"
    [] session = "sessionB" -> "B"
    [] session = "sessionZ" -> NoRow
    [] OTHER -> NoUser

Routes ==
  {"credits", "project", "project/:projectId", "projects",
   "publish-toggle/:projectId", "purchase-credits"}

Dispatched(route, session, res) == [route |-> route, session |-> session, res |-> res]

ProtectRejects ==
  /\ routed = NoRouted
  /\ \E session \in SessionTokens \ ValidSessions, route \in Routes :
       routed' = Dispatched(route, session, <<>>)
  /\ UNCHANGED <<Store, opening, transactions, sessions, req, applied, tog, pur,
                 got, text>>

RouteCredits ==
  /\ routed = NoRouted
  /\ \E session \in ValidSessions, ok \in BOOLEAN :
       routed' = Dispatched("credits", session,
                   <<GetUserCreditsResponse(SessionUser(session), ok)>>)
  /\ UNCHANGED <<Store, opening, transactions, sessions, req, applied, tog, pur,
                 got, text>>

RouteProject ==
  \E session \in ValidSessions, r \in Requests, initial_prompt \in Prompts :
    /\ routed = NoRouted
    /\ ValidateAs(r, SessionUser(session), initial_prompt)
    /\ routed' = Dispatched("project", session, <<>>)

RouteProjectById ==
  \E session \in ValidSessions, projectId \in ProjectIds, ok \in BOOLEAN :
    /\ routed = NoRouted
    /\ GetUserProjectAs(SessionUser(session), projectId, ok)
    /\ routed' = Dispatched("project/:projectId", session, <<>>)

RouteProjects ==
  /\ routed = NoRouted
  /\ \E session \in ValidSessions, ok \in BOOLEAN :
       routed' = Dispatched("projects", session,
                   <<GetUserProjectsResponse(SessionUser(session), ok)>>)
  /\ UNCHANGED <<Store, opening, transactions, sessions, req, applied, tog, pur,
                 got, text>>

RoutePublishToggle ==
  \E session \in ValidSessions, t \in ToggleCalls, projectId \in ProjectIds,
     ok \in BOOLEAN :
    /\ routed = NoRouted
    /\ ToggleFindAs(t, SessionUser(session), projectId, ok)
    /\ routed' = Dispatched("publish-toggle/:projectId", session, <<>>)

RoutePurchaseCredits ==
  \E session \in ValidSessions, p \in PurchaseCalls, planId \in PlanIds,
     ok \in BOOLEAN :
    /\ routed = NoRouted
    /\ PurchaseCreateAs(p, SessionUser(session), planId, ok)
    /\ routed' = Dispatched("purchase-credits", session, <<>>)

\* One request arrives at the router and its handler runs to its end.
NextRouter ==
  \/ ProtectRejects
  \/ RouteCredits
  \/ RouteProject
  \/ RouteProjectById
  \/ RouteProjects
  \/ RoutePublishToggle
  \/ RoutePurchaseCredits
  \/ \E r \in Requests : AfterValidate(r)
  \/ \E t \in ToggleCalls : ToggleUpdate(t)
  \/ \E p \in PurchaseCalls : PurchaseCheckout(p)
SpecRouter == InitStore /\ [][NextRouter]_vars

\* ================================================================ claims
VersionsOf(projectId) ==
  {v \in 1..Len(versions) : versions[v].projectId = projectId}

\* the other requests of the same user have committed no balance write
AloneOnBalance(r) ==
  \A o \in Requests \ {r} :
    req[o].userId = req[r].userId => applied[o] = [debits |-> 0, refunds |-> 0]

Terminated(r) == req[r].pc = "done" /\ req[r].task # "none"

\* C1 (the half "never both"): once the background task of a debited attempt
\* has terminated, it is not the case that a Version was persisted for the
\* project and a refund was applied as well.
C1_NeverVersionAndRefund ==
  \A r \in Requests :
    (Terminated(r) /\ applied[r].debits = 1)
      => ~(VersionsOf(req[r].projectId) # {} /\ applied[r].refunds >= 1)

\* C1 (the half "never neither"): once the background task of a debited
\* attempt has terminated, a Version was persisted or a refund was applied.
C1_VersionOrRefund ==
  \A r \in Requests :
    (Terminated(r) /\ applied[r].debits = 1)
      => (VersionsOf(req[r].projectId) # {} \/ applied[r].refunds >= 1)

\* C2: in every reachable state the balance of every user is at least 0.
C2_BalanceNeverNegative == \A u \in Users : credits[u] >= 0

\* C3: a request that reads a balance below 5 ends in that step, answered with
\* the insufficient-credits response (or 500 when the read itself rejected),
\* with balance, totalCreation, projects, entries and versions unchanged and no
\* background task started.
C3_InsufficientCreditsChangesNothing ==
  [][\A r \in Requests :
       (/\ req[r].pc = "findUser"
        /\ req[r].userId \in Users
        /\ credits[req[r].userId] < CreditsRequired
        /\ req'[r] # req[r])
       => (/\ req'[r].pc = "done"
           /\ req'[r].task = "none"
           /\ req'[r].projectId = 0
           /\ Len(req'[r].res) = 1
           /\ req'[r].res[1].status \in {403, 500}
           /\ UNCHANGED <<credits, totalCreation, projects, conversation,
                          versions, applied>>)]_vars

C3_Witness ==
  \E r \in Requests :
    /\ req[r].pc = "done"
    /\ req[r].res = <<Response(403, "Add credits to create more projects", 0)>>
    /\ credits[req[r].userId] < CreditsRequired

\* C4: a generation that ended in success committed one debit and no refund,
\* exactly one Version, holding non-empty code, exists for its project, and,
\* when no other request of the user wrote the balance, the balance is the
\* opening balance less 5.
C4_SuccessCostsFiveAndOneVersion ==
  \A r \in Requests :
    req[r].task = "succeeded"
      => /\ applied[r] = [debits |-> 1, refunds |-> 0]
         /\ Cardinality(VersionsOf(req[r].projectId)) = 1
         /\ \A v \in VersionsOf(req[r].projectId) : versions[v].code # <<>>
         /\ AloneOnBalance(r) => credits[req[r].userId] = opening[req[r].userId] - 5

C4_Witness ==
  \E r \in Requests :
    /\ req[r].task = "succeeded"
    /\ AloneOnBalance(r)
    /\ credits[req[r].userId] = opening[req[r].userId] - 5

\* C5: a generation that ended on empty sanitized output committed one debit
\* and one refund, no Version exists for its project, the Project row is
\* present with all four entries written for it, and, when no other request of
\* the user wrote the balance, the balance is the opening balance.
C5_EmptyOutputIsCompensated ==
  \A r \in Requests :
    req[r].task = "emptyOutput"
      => /\ applied[r] = [debits |-> 1, refunds |-> 1]
         /\ VersionsOf(req[r].projectId) = {}
         /\ req[r].projectId \in 1..Len(projects)
         /\ projects[req[r].projectId].userId = req[r].userId
         /\ projects[req[r].projectId].current_code = Null
         /\ Len(conversation[req[r].projectId]) = 4
         /\ AloneOnBalance(r) => credits[req[r].userId] = opening[req[r].userId]

C5_Witness ==
  \E r \in Requests :
    /\ req[r].task = "emptyOutput"
    /\ AloneOnBalance(r)
    /\ credits[req[r].userId] = opening[req[r].userId]

Roles(log) == [i \in 1..Len(log) |-> log[i].role]
Contents(log) == [i \in 1..Len(log) |-> log[i].content]

\* the log is: the user prompt, an enhanced-prompt notice, then the notices given
IsLog(log, prompt, notices) ==
  /\ Len(log) = 2 + Len(notices)
  /\ Roles(log) = <<"user">> \o [i \in 1..(Len(log) - 1) |-> "assistant"]
  /\ log[1].content = prompt
  /\ \E content \in EnhanceContents :
       log[2].content = EnhancedNotice(EnhancedOrOriginal(content, prompt))
  /\ SubSeq(Contents(log), 3, Len(log)) = notices

\* C6 as claimed: success leaves 4 entries, empty output leaves 3 (initial user
\* prompt, enhanced-prompt notice, failure notice).
C6_EmptyOutputLeavesThree ==
  \A r \in Requests :
    LET log == conversation[req[r].projectId]
        prompt == projects[req[r].projectId].initial_prompt IN
      /\ req[r].task = "succeeded" => IsLog(log, prompt, <<StartNotice, SuccessNotice>>)
      /\ req[r].task = "emptyOutput" => IsLog(log, prompt, <<FailureNotice>>)

\* C6 as amended: success leaves exactly 4 entries (initial user prompt,
\* enhanced-prompt notice, start notice, success notice) and empty output
\* leaves exactly 4 entries (initial user prompt, enhanced-prompt notice, start
\* notice, failure notice).
C6_OutcomeDeterminesLog ==
  \A r \in Requests :
    LET log == conversation[req[r].projectId]
        prompt == projects[req[r].projectId].initial_prompt IN
      /\ req[r].task = "succeeded" => IsLog(log, prompt, <<StartNotice, SuccessNotice>>)
      /\ req[r].task = "emptyOutput" => IsLog(log, prompt, <<StartNotice, FailureNotice>>)

C6_Witness ==
  \E r, o \in Requests :
    /\ req[r].task = "succeeded"
    /\ req[o].task = "emptyOutput"
    /\ Len(conversation[req[o].projectId]) = 4

HasFailureNotice(projectId) ==
  \E i \in 1..Len(conversation[projectId]) :
    conversation[projectId][i] = Entry("assistant", FailureNotice)

\* C7: whenever a debited generation has terminated without a Version for its
\* project, the log of the project holds the assistant failure entry and the
\* debit is matched by a refund.
C7_FailureIsLoggedAndRefunded ==
  \A r \in Requests :
    (Terminated(r) /\ applied[r].debits = 1 /\ VersionsOf(req[r].projectId) = {})
      => (HasFailureNotice(req[r].projectId) /\ applied[r].refunds = 1)

MissingIds == ProjectIds \ (1..Len(projects))

\* C8: for every caller B, every project owned by another user and every id of
\* no project, getUserProject answers B the same for both, and the answer given
\* to the last call for a foreign project is the one for a missing id.
C8_ForeignProjectLooksMissing ==
  /\ \A b \in UserIds, p \in 1..Len(projects), m \in MissingIds, ok \in BOOLEAN :
       projects[p].userId # b
         => GetUserProjectResponse(b, p, ok) = GetUserProjectResponse(b, m, ok)
  /\ (/\ got.res # <<>>
      /\ got.userId # NoUser
      /\ got.projectId \in 1..Len(projects)
      /\ projects[got.projectId].userId # got.userId)
       => \A m \in MissingIds :
            got.res = <<GetUserProjectResponse(got.userId, m, got.ok)>>

C8_Witness ==
  /\ got.res = <<ReadResponse(200, "project", <<>>)>>
  /\ got.userId \in Users
  /\ got.projectId \in 1..Len(projects)
  /\ projects[got.projectId].userId # got.userId
  /\ FindWithHistory(got.projectId, projects[got.projectId].userId) # <<>>

\* C9: a togglePublish call for a missing or foreign project ends not found (or
\* 500 when the lookup rejected) and changes no project; the update step of a
\* call is by the owner and rewrites only isPublished of that project, to the
\* negation of the flag the call read; no other step changes a project.
C9_ToggleTouchesOnlyOwnedFlag ==
  [][/\ \A t \in ToggleCalls :
          /\ (/\ tog[t].pc = "idle"
              /\ tog'[t].pc # "idle"
              /\ tog'[t].userId # NoUser
              /\ ~OwnedBy(tog'[t].projectId, tog'[t].userId))
               => (/\ tog'[t].pc = "done"
                   /\ tog'[t].res[1].status \in {404, 500}
                   /\ projects' = projects)
          /\ (tog[t].pc = "update" /\ tog'[t].pc = "done")
               => /\ OwnedBy(tog[t].projectId, tog[t].userId)
                  /\ \/ /\ tog'[t].res[1].status = 200
                        /\ projects' = [projects EXCEPT
                             ![tog[t].projectId].isPublished = ~tog[t].isPublished]
                     \/ /\ tog'[t].res[1].status = 500
                        /\ projects' = projects
     /\ projects' # projects
          => \E t \in ToggleCalls : tog[t].pc = "update" /\ tog'[t].pc = "done"]_vars

\* C9 read against the stored flag: the update step leaves isPublished of the
\* project the negation of what it was just before the step.
C9_ToggleNegatesStoredFlag ==
  [][\A t \in ToggleCalls :
       (tog[t].pc = "update" /\ tog'[t].pc = "done" /\ tog'[t].res[1].status = 200)
         => projects'[tog[t].projectId].isPublished
              = ~projects[tog[t].projectId].isPublished]_vars

C9_Witness ==
  \E t, o \in ToggleCalls :
    /\ tog[t].res = <<MessageResponse(200, "Project Published Successfully")>>
    /\ projects[tog[t].projectId].isPublished
    /\ tog[o].res = <<MessageResponse(404, "Project not found")>>
    /\ tog[o].projectId \in 1..Len(projects)
    /\ \E q \in 1..Len(projects) : q # tog[t].projectId /\ ~projects[q].isPublished

PurchasesWithRow == {p \in PurchaseCalls : pur[p].transactionId # 0}
SessionsOf(transactionId) ==
  {i \in 1..Len(sessions) : sessions[i].transactionId = transactionId}

\* C10: every purchase that got past the plan lookup and the row creation has
\* exactly one Transaction, its own, carrying the amount and credits of its plan
\* (basic 5/100, pro 19/400, enterprise 49/1000); every purchase answered with
\* the payment link has exactly one checkout session, for its Transaction, with
\* unit amount = amount x 100 and quantity 1; no purchase changes a balance.
C10_PurchaseCreatesOneTransaction ==
  /\ Len(transactions) = Cardinality(PurchasesWithRow)
  /\ \A p, q \in PurchasesWithRow : p # q => pur[p].transactionId # pur[q].transactionId
  /\ \A p \in PurchasesWithRow :
       /\ pur[p].transactionId \in 1..Len(transactions)
       /\ LET row == transactions[pur[p].transactionId] IN
            /\ row.userId = pur[p].userId
            /\ row.planId = pur[p].planId
            /\ <<row.planId, row.amount, row.credits>> \in
                 {<<"basic", 5, 100>>, <<"pro", 19, 400>>, <<"enterprise", 49, 1000>>}
  /\ \A p \in PurchaseCalls :
       (pur[p].pc = "done" /\ pur[p].res[1].status = 200)
         => /\ p \in PurchasesWithRow
            /\ Cardinality(SessionsOf(pur[p].transactionId)) = 1
            /\ \A i \in SessionsOf(pur[p].transactionId) :
                 /\ sessions[i].unit_amount = transactions[pur[p].transactionId].amount * 100
                 /\ sessions[i].quantity = 1
  /\ \A p \in PurchaseCalls :
       (pur[p].pc = "done" /\ pur[p].userId \in Users /\ pur[p].planId \in DOMAIN Plans)
         => pur[p].res[1].status \in {200, 500}
  /\ credits = opening

C10_Witness ==
  \E p \in PurchaseCalls :
    /\ pur[p].res = <<MessageResponse(200, "payment_link")>>
    /\ pur[p].planId = "pro"
    /\ transactions[pur[p].transactionId].amount = 19
    /\ transactions[pur[p].transactionId].credits = 400
    /\ \E i \in 1..Len(sessions) :
         sessions[i] = [unit_amount |-> 1900, quantity |-> 1, name |-> 400,
                        transactionId |-> pur[p].transactionId]

\* the tables and the ledger
Persisted ==
  <<credits, totalCreation, projects, conversation, versions, transactions,
    sessions, applied>>

Blank(s) == s = Null \/ \A i \in 1..Len(s) : s[i] \in Whitespace

\* C11: a createUserProject request leaves its first step either with an
\* identity and a prompt that is not blank, or ended, answered once with 401
\* Unauthorized or 400, with no table and no balance changed; a purchaseCredits
\* call with no identity or with a plan id outside the plan table ends in its
\* first step, answered once with 401 or 404 Plan not found, with no table and
\* no balance changed.
C11_RejectedRequestChangesNothing ==
  [][/\ \A r \in Requests :
          (req[r].pc = "idle" /\ req'[r] # req[r])
            => \/ /\ req'[r].pc = "findUser"
                  /\ req'[r].userId # NoUser
                  /\ ~Blank(req'[r].initial_prompt)
               \/ /\ req'[r].pc = "done"
                  /\ req'[r].task = "none"
                  /\ req'[r].res \in
                       {<<Response(401, "Unauthorized user", 0)>>,
                        <<Response(400, "initial_prompt is required", 0)>>}
                  /\ UNCHANGED Persisted
     /\ \A p \in PurchaseCalls :
          (/\ pur[p].pc = "idle"
           /\ pur'[p] # pur[p]
           /\ \/ pur'[p].userId = NoUser
              \/ pur'[p].planId \notin {"basic", "pro", "enterprise"})
            => /\ pur'[p].pc = "done"
               /\ pur'[p].res \in
                    {<<MessageResponse(401, "Unauthorized user")>>,
                     <<MessageResponse(404, "Plan not found")>>}
               /\ UNCHANGED Persisted]_vars

C11_Witness ==
  /\ \E r \in Requests :
       req[r].res = <<Response(400, "initial_prompt is required", 0)>>
  /\ \E p, q \in PurchaseCalls :
       /\ pur[p].res = <<MessageResponse(401, "Unauthorized user")>>
       /\ pur[q].res = <<MessageResponse(404, "Plan not found")>>
       /\ pur[q].planId = "gold"
  /\ projects = <<>>
  /\ transactions = <<>>
  /\ credits = opening

OnlyUserEntries(projectId) ==
  \A i \in 1..Len(conversation[projectId]) : conversation[projectId][i].role = "user"

\* C12: a request is answered at most once and, once ended, exactly once; the
\* answer, once sent, never changes; a request whose background task was
\* started holds the 200 answer with its project id and one committed debit,
\* and its task runs, or has ended in success, on empty output or in the catch
\* block; an error status is the answer only of a request that started no task;
\* while a request is unanswered its project has no assistant entry; and the
\* step that sends the project id commits the debit, leaves the log of the
\* project with the user entry alone and waits for the enhancement call.
C12_OneResponseBeforeGeneration ==
  /\ [](\A r \in Requests :
         /\ Len(req[r].res) <= 1
         /\ req[r].pc = "done" => Len(req[r].res) = 1
         /\ req[r].task \in {"none", "running", "succeeded", "emptyOutput", "failed"}
         /\ req[r].task # "none"
              => /\ req[r].res = <<Response(200, "projectId", req[r].projectId)>>
                 /\ req[r].projectId \in 1..Len(projects)
                 /\ applied[r].debits = 1
         /\ (req[r].task = "none" /\ req[r].res # <<>>)
              => req[r].res[1].status \in {400, 401, 403, 500}
         /\ (req[r].res = <<>> /\ req[r].projectId # 0)
              => OnlyUserEntries(req[r].projectId))
  /\ [][\A r \in Requests :
          /\ req[r].res # <<>> => req'[r].res = req[r].res
          /\ (req[r].res = <<>> /\ req'[r].task # "none")
               => /\ applied[r].debits = 0
                  /\ applied'[r].debits = 1
                  /\ req'[r].pc = "enhance"
                  /\ conversation'[req'[r].projectId]
                       = <<Entry("user", req'[r].initial_prompt)>>]_vars

C12_Witness ==
  \E r \in Requests :
    /\ req[r].task = "failed"
    /\ req[r].pc = "done"
    /\ req[r].res = <<Response(200, "projectId", req[r].projectId)>>
    /\ applied[r] = [debits |-> 1, refunds |-> 0]

IsPrefix(s, t) == Len(s) <= Len(t) /\ s = SubSeq(t, 1, Len(s))

\* the four entries a generation for this prompt can leave
FullLogs(prompt) ==
  { <<Entry("user", prompt),
      Entry("assistant", EnhancedNotice(EnhancedOrOriginal(content, prompt))),
      Entry("assistant", StartNotice),
      Entry("assistant", terminal)>> :
    content \in EnhanceContents, terminal \in {SuccessNotice, FailureNotice} }

\* C13: in every reachable state the entries of every project are a prefix of
\* [user initial prompt, enhanced-prompt notice, start notice, success or
\* failure notice]; and every step leaves the entries a project had as the
\* prefix of the entries it has afterwards.
C13_LogIsAnOrderedPrefix ==
  /\ [](\A p \in 1..Len(projects) :
         \E full \in FullLogs(projects[p].initial_prompt) :
           IsPrefix(conversation[p], full))
  /\ [][\A p \in 1..Len(conversation) :
          IsPrefix(conversation[p], conversation'[p])]_vars

C13_Witness ==
  \E r, o \in Requests :
    /\ req[r].task = "emptyOutput"
    /\ Len(conversation[req[r].projectId]) = 4
    /\ conversation[req[r].projectId][4] = Entry("assistant", FailureNotice)
    /\ req[o].task = "running"
    /\ Len(conversation[req[o].projectId]) = 2

\* C14: the step that receives the outcome of the enhancement call, a
\* rejection included, always moves on to the enhanced-prompt notice, with the
\* original prompt or the trimmed non-empty answer as the enhanced prompt, and
\* commits no refund.
C14_EnhancementFailureFallsBack ==
  [][\A r \in Requests :
       (req[r].pc = "enhance" /\ req'[r] # req[r])
         => /\ req'[r].pc = "logEnhanced"
            /\ \/ req'[r].enhancedPrompt = req[r].initial_prompt
               \/ ~Blank(req'[r].enhancedPrompt)
            /\ applied' = applied
            /\ credits' = credits]_vars

\* C14, the half about an empty answer: whenever the enhancement call has
\* answered, the enhanced prompt is not blank, and it is the original prompt
\* unless the answer had visible text.
C14_EmptyAnswerFallsBack ==
  \A r \in Requests :
    req[r].pc = "logEnhanced"
      => /\ ~Blank(req[r].enhancedPrompt)
         /\ req[r].enhancedPrompt \in {req[r].initial_prompt, <<"e">>}

\* C15: a request whose background task was started has committed exactly one
\* debit, a request that started none has committed no debit; no request has
\* committed more than one refund, nor a refund without its debit; and the
\* balance of no user is above the opening balance.
C15_OneDebitAtMostOneRefund ==
  /\ \A r \in Requests :
       /\ applied[r].debits = (IF req[r].task = "none" THEN 0 ELSE 1)
       /\ applied[r].refunds <= applied[r].debits
  /\ \A u \in Users : credits[u] <= opening[u]

\* the failure notice was written, the refund at line 121 rejected, and the
\* refund of the catch block was committed
C15_Witness ==
  \E r, o \in Requests :
    /\ req[r].task = "failed"
    /\ HasFailureNotice(req[r].projectId)
    /\ applied[r] = [debits |-> 1, refunds |-> 1]
    /\ req[o].task = "failed"
    /\ Len(conversation[req[o].projectId]) = 3
    /\ applied[o] = [debits |-> 1, refunds |-> 0]

LatestVersionOf(projectId) ==
  CHOOSE v \in VersionsOf(projectId) : \A w \in VersionsOf(projectId) : w <= v

PointsAtLatest(projectId) ==
  IF VersionsOf(projectId) = {}
    THEN projects[projectId].current_code = Null
    ELSE /\ projects[projectId].current_version_index = LatestVersionOf(projectId)
         /\ projects[projectId].current_code = versions[LatestVersionOf(projectId)].code

\* C16: in every reachable state every Project with a Version has
\* current_version_index equal to the id of its latest Version and current_code
\* equal to the code of that Version, every Project without a Version has
\* current_code null, and a current_version_index that is set is the id of a
\* Version of the same Project.
C16_CurrentPointsAtLatestVersion ==
  \A p \in 1..Len(projects) :
    /\ PointsAtLatest(p)
    /\ projects[p].current_version_index # 0
         => projects[p].current_version_index \in VersionsOf(p)

\* C16 for the projects whose generation has terminated only.
C16_PointsAtLatestOnceTerminated ==
  \A r \in Requests : Terminated(r) => PointsAtLatest(req[r].projectId)

\* C16, the last part alone: a current_version_index that is set is the id of
\* a Version of the same Project, holding the current code.
C16_IndexIsOwnVersion ==
  \A p \in 1..Len(projects) :
    projects[p].current_version_index # 0
      => /\ projects[p].current_version_index \in VersionsOf(p)
         /\ versions[projects[p].current_version_index].code = projects[p].current_code

RequestsOf(u) == {r \in Requests : req[r].userId = u /\ req[r].pc # "idle"}

RECURSIVE Sum(_, _)
Sum(f, S) ==
  IF S = {} THEN 0
  ELSE LET x == CHOOSE y \in S : TRUE IN f[x] + Sum(f, S \ {x})

DebitsOf(u) == Sum([r \in Requests |-> applied[r].debits], RequestsOf(u))
RefundsOf(u) == Sum([r \in Requests |-> applied[r].refunds], RequestsOf(u))

\* C17: in every reachable state, and so once every generation attempt has
\* terminated, the balance of every user is the opening balance minus 5 times
\* the debits its requests committed plus 5 times the refunds they committed.
C17_NoLostBalanceUpdate ==
  \A u \in Users :
    credits[u] = opening[u] - 5 * DebitsOf(u) + 5 * RefundsOf(u)

\* two attempts of one user, both past the balance check before either debit,
\* both terminated, one refunded
C17_Witness ==
  \E r, o \in Requests :
    /\ r # o
    /\ req[r].userId = req[o].userId
    /\ Terminated(r)
    /\ Terminated(o)
    /\ opening[req[r].userId] = 5
    /\ applied[r] = [debits |-> 1, refunds |-> 1]
    /\ applied[o] = [debits |-> 1, refunds |-> 0]
    /\ credits[req[r].userId] = 0

HasFence(s) == \E i \in 1..(Len(s) - 2) : FenceAt(SubSeq(s, i, Len(s)))

Bare(s) ==
  /\ ~HasFence(s)
  /\ s # <<>> => (s[1] \notin Whitespace /\ s[Len(s)] \notin Whitespace)

\* C18: for every raw output, sanitizing the sanitized output gives the
\* sanitized output again; and sanitizing a raw output that contains no fence
\* and neither starts nor ends with whitespace gives the raw output.
C18_SanitizeIsIdempotent ==
  /\ text.again # Null => text.again = text.cleaned
  /\ (text.cleaned # Null /\ Bare(text.raw)) => text.cleaned = text.raw

C18_Witness ==
  /\ text.raw = <<Tick, Tick, Tick, "h", "\n", "<", Tick>>
  /\ text.cleaned = <<"<", Tick>>
  /\ text.again = <<"<", Tick>>

Answered(r) == req[r].res # <<>>

ProjectsOf(u) == {p \in 1..Len(projects) : projects[p].userId = u}

\* C19: once a request is answered, either its Project row exists with the
\* initial user entry and its debit is committed, or it has no Project row and
\* no debit; and once every request is answered, totalCreation of every user
\* counts exactly the projects of the user, one per committed debit.
C19_SyncWritesAllOrNothing ==
  /\ \A r \in Requests :
       Answered(r)
         => \/ /\ req[r].projectId # 0
               /\ conversation[req[r].projectId] # <<>>
               /\ applied[r].debits = 1
            \/ /\ req[r].projectId = 0
               /\ applied[r].debits = 0
  /\ (\A r \in Requests : req[r].pc = "idle" \/ Answered(r))
       => \A u \in Users :
            /\ totalCreation[u] = Cardinality(ProjectsOf(u))
            /\ totalCreation[u] = DebitsOf(u)

HandlerUnauthorized(res) ==
  \E i \in 1..Len(res) :
    res[i].status = 401 /\ res[i].message = "Unauthorized user"

AnsweredWith(Test(_)) ==
  \/ \E r \in Requests : Test(req[r].res)
  \/ \E t \in ToggleCalls : Test(tog[t].res)
  \/ \E p \in PurchaseCalls : Test(pur[p].res)
  \/ Test(got.res)
  \/ Test(routed.res)

Status401(res) == \E i \in 1..Len(res) : res[i].status = 401

\* C20 read for the status alone: a request with a valid session is not
\* answered with status 401 by its handler.
C20_ValidSessionNever401 ==
  routed.session \in ValidSessions => ~AnsweredWith(Status401)
====
